---- MODULE Spec2Model ----
(***************************************************************************)
(* Model of main.py: a batch job that connects to a forum API, loads the   *)
(* dedup set, fetches a bounded listing, filters and narrates each item,   *)
(* saves the dedup set and renders index.html.  One action per function    *)
(* of main.py; the fetch loop is one action per iteration.                 *)
(***************************************************************************)
EXTENDS Integers, Sequences, FiniteSets, TLC

\* ---------------------------------------------------------------- bounds
MaxPosts == 2          \* items the listing yields in one run (at most POST_LIMIT)
MaxRuns == 2           \* non-overlapping runs of the job
MaxTail == 2           \* free characters after the padding of a sanitizer input

\* ------------------------------------------------------ program constants
POST_LIMIT == 10
MIN_TEXT_LENGTH == 50
TTS_ATTEMPTS == 3
FILENAME_LIMIT == 100

None == "None"

Min(a, b) == IF a < b THEN a ELSE b

\* ------------------------------------------------------ sanitize_filename
Lower == {"a","b","c","d","e","f","g","h","i","j","k","l","m",
          "n","o","p","q","r","s","t","u","v","w","x","y","z"}
Upper == {"A","B","C","D","E","F","G","H","I","J","K","L","M",
          "N","O","P","Q","R","S","T","U","V","W","X","Y","Z"}
Digit == {"0","1","2","3","4","5","6","7","8","9"}
\* the complement of the class [^a-zA-Z0-9_\-\.]
AllowedChars == Lower \cup Upper \cup Digit \cup {"_", "-", "."}

\* re.sub(r'[^a-zA-Z0-9_\-\.]', '_', name)
ReplaceInvalid(name) ==
    [i \in 1..Len(name) |-> IF name[i] \in AllowedChars THEN name[i] ELSE "_"]

\* re.sub(r'_+', '_', name): of every run of underscores the first is kept
CollapseUnderscores(name) ==
    LET marked == [i \in 1..Len(name) |->
                      [c |-> name[i],
                       keep |-> ~(name[i] = "_" /\ i > 1 /\ name[i - 1] = "_")]]
        Keep(m) == m.keep
        kept == SelectSeq(marked, Keep)
    IN [i \in 1..Len(kept) |-> kept[i].c]

RECURSIVE LStrip(_, _)
LStrip(name, chars) ==
    IF name # <<>> /\ name[1] \in chars THEN LStrip(Tail(name), chars) ELSE name

RECURSIVE RStrip(_, _)
RStrip(name, chars) ==
    IF name # <<>> /\ name[Len(name)] \in chars
    THEN RStrip(SubSeq(name, 1, Len(name) - 1), chars) ELSE name

\* str.strip(chars)
Strip(name, chars) == RStrip(LStrip(name, chars), chars)

\* name[:limit]
Truncate(name, limit) == SubSeq(name, 1, Min(Len(name), limit))

sanitize_filename(name) ==
    Truncate(Strip(CollapseUnderscores(ReplaceInvalid(name)), {"_"}), FILENAME_LIMIT)


\* ------------------------------------------------------------ the domain
\* Identifiers of remote submissions.  An identifier fixes the title and the
\* creation time of the submission it names; the other fields vary freely.
Ids == {"abc123", "def456"}

TitleOf(id) ==
    IF id = "abc123" THEN <<" ", "M", "y", " ", "s", "t", "o", "r", "y", "!">>
    ELSE <<"a", "_", "_", "b">>

DateOf(id) == IF id = "abc123" THEN 1 ELSE 2

Whitespace == {" ", "\t", "\n", "\r"}

\* len(submission.selftext): the body is opaque text, only its length is read
BodyLens == {0, MIN_TEXT_LENGTH - 1, MIN_TEXT_LENGTH}

\* one item of subreddit.hot(limit=POST_LIMIT)
Submissions ==
    {s \in [id : Ids, title : {TitleOf(i) : i \in Ids}, selftext : BodyLens,
            is_self : BOOLEAN, stickied : BOOLEAN, created_utc : {DateOf(i) : i \in Ids}] :
        s.title = TitleOf(s.id) /\ s.created_utc = DateOf(s.id)}

\* os.environ.get(...) of a configuration value: unset, empty or set
EnvValues == {None, "", "cred"}

\* f"{submission.id}_{sanitize_filename(clean_title)}.mp3"; identifiers hold no
\* underscore, so the pair determines the string and the string the pair
AudioFilename(id, clean_title) == <<id, sanitize_filename(clean_title), ".mp3">>

AudioNames == {AudioFilename(i, Strip(TitleOf(i), Whitespace)) : i \in Ids}

\* content of processed_posts.json
HistoryKinds == {"missing", "array", "notjson", "unreadable", "number", "nested", "badbytes"}
HistoryFiles ==
    {[kind |-> "array", ids |-> S] : S \in SUBSET Ids}
    \cup {[kind |-> k, ids |-> {}] : k \in HistoryKinds \ {"array"}}

\* the audio file of the submission with this identifier
NameOf(id) == AudioFilename(id, Strip(TitleOf(id), Whitespace))

NoAudio == [f \in AudioNames |-> "absent"]

NoPage == [kind |-> "missing", notice |-> FALSE, blocks |-> <<>>]

\* what the latest loop iteration saw and did: the item's identifier, whether it
\* was in processed_ids, whether its content meets the criteria, the audio file
\* found at its path, the synthesis attempts made and how the iteration ended
NoLast == [id |-> None, inSet |-> FALSE, eligible |-> FALSE, attempts |-> 0,
           outcome |-> "none", before |-> "absent"]

VARIABLES
    CLIENT_ID, CLIENT_SECRET, envUserAgent,   \* the process environment
    historyFile, audioDir, audio, htmlFile,   \* the files on disk
    pc, reddit, processed_ids, posts_data,    \* the running process
    n, idx, exitStatus,
    runs, verifyRaised, loadRaised, loadFailed, loadedIds,
    fetchCalled, ttsCalled, raisedAt, raisedIn, collected, last,
    ttsFailed, reaccepted, saveCalled, saveFailed, htmlCalled, htmlFailed,
    acceptedRuns, allOK,
    sanIn, sanOut, sanDone                    \* sanitize_filename taken alone

env == <<CLIENT_ID, CLIENT_SECRET, envUserAgent>>
disk == <<historyFile, audioDir, audio, htmlFile>>
proc == <<pc, reddit, processed_ids, posts_data, n, idx, exitStatus>>
hist == <<runs, verifyRaised, loadRaised, loadFailed, loadedIds, fetchCalled, ttsCalled,
          raisedAt, raisedIn, collected, last, ttsFailed, reaccepted, saveCalled,
          saveFailed, htmlCalled, htmlFailed, acceptedRuns, allOK>>
san == <<sanIn, sanOut, sanDone>>
vars == <<env, disk, proc, hist, san>>

\* ------------------------------------------------------------- functions
Truthy(v) == v # None /\ v # ""

\* lines 13-16: the default client signature replaces an unset one
USER_AGENT ==
    IF Truthy(envUserAgent) THEN envUserAgent
    ELSE "linux:mysecretpodcastbot:v1.0 (by /u/YourRedditUsername)"

\* connect_to_reddit without the test of line 99
connect_to_reddit_NoCredentialCheck(raises) == IF raises THEN None ELSE "session"

\* raises: praw.Reddit(...) or reddit.user.me() raises
connect_to_reddit(raises) ==
    IF ~(Truthy(CLIENT_ID) /\ Truthy(CLIENT_SECRET) /\ Truthy(USER_AGENT)) THEN None
    ELSE IF raises THEN None
    ELSE "session"

\* the result of load_processed_posts on the file as it is: raised = an
\* exception leaves the function, failed = the except clause logged and
\* returned set()
load_processed_posts ==
    CASE historyFile.kind = "missing" -> [raised |-> FALSE, failed |-> FALSE, ids |-> {}]
      [] historyFile.kind = "array" ->
            [raised |-> FALSE, failed |-> FALSE, ids |-> historyFile.ids]
      [] historyFile.kind \in {"notjson", "unreadable"} ->
            [raised |-> FALSE, failed |-> TRUE, ids |-> {}]
      [] OTHER -> [raised |-> TRUE, failed |-> TRUE, ids |-> {}]

\* the content criteria of the filter: a text post, not stickied, with a body
\* of at least MIN_TEXT_LENGTH characters
ContentOK(s) == ~s.stickied /\ s.is_self /\ s.selftext >= MIN_TEXT_LENGTH

\* the filter without its first disjunct
SkippedIgnoringDedup(s, ids) ==
    \/ s.stickied
    \/ s.is_self = FALSE
    \/ s.selftext = 0
    \/ s.selftext < MIN_TEXT_LENGTH

\* the filter of lines 130-134
Skipped(s, ids) ==
    \/ s.id \in ids
    \/ s.stickied
    \/ s.is_self = FALSE
    \/ s.selftext = 0
    \/ s.selftext < MIN_TEXT_LENGTH

\* the retry loop of generate_tts from `attempt` on, when the synthesis call
\* fails `failures` times before it would succeed
RECURSIVE TtsLoop(_, _)
TtsLoop(attempt, failures) ==
    IF attempt >= TTS_ATTEMPTS THEN [ok |-> FALSE, attempts |-> attempt]
    ELSE IF failures <= attempt THEN [ok |-> TRUE, attempts |-> attempt + 1]
    ELSE IF attempt = 2 THEN [ok |-> FALSE, attempts |-> attempt + 1]
    ELSE TtsLoop(attempt + 1, failures)

\* the text handed over is cut at MAX_TEXT_LENGTH first; the cut changes
\* nothing the loop or its callers read
generate_tts(failures) == TtsLoop(0, failures)

PostIds(posts) == {posts[i].id : i \in 1..Len(posts)}

\* posts_data.sort(key=date, reverse=True): stable, newest first
RECURSIVE SortByDateDesc(_)
SortByDateDesc(posts) ==
    IF posts = <<>> THEN <<>>
    ELSE LET x == posts[Len(posts)]
             rest == SortByDateDesc(SubSeq(posts, 1, Len(posts) - 1))
             NotOlder(r) == r.date >= x.date
             Older(r) == r.date < x.date
         IN SelectSeq(rest, NotOlder) \o <<x>> \o SelectSeq(rest, Older)

\* the post blocks of html_content, one per record, in order
Blocks(posts) == [i \in 1..Len(posts) |-> posts[i].id]

\* the loop body without the reuse of lines 150-152
AudioExistsNever(name) == FALSE

\* os.path.exists(audio_path)
AudioExists(name) == audioDir /\ audio[name] # "absent"

\* the identifier added before the synthesis result is tested
ProcessedAfterAlways(ids, s, accepted) == ids \cup {s.id}

\* processed_ids.add(submission.id), reached only past every `continue`
ProcessedAfter(ids, s, accepted) == IF accepted THEN ids \cup {s.id} ELSE ids

\* the record appended to posts_data (lines 161-168); url is the permalink of
\* the identifier and is left out
PostRecord(s, clean_title, audio_file) ==
    [id |-> s.id, title |-> clean_title, text |-> s.selftext,
     audio_file |-> audio_file, date |-> s.created_utc]

\* no except clause: the exception leaves main
AfterLoopExceptionPropagates == "exit"

\* a handler inside the loop body that skips the item
AfterLoopExceptionContinues == "loop"

\* lines 171-176: both except clauses log and fall through to the return
AfterLoopException == "save"

\* only the identifiers of this run are written
SavedContentOnlyNew(ids) == [kind |-> "array", ids |-> ids \ loadedIds]

\* json.dump(list(processed_ids), f)
SavedContent(ids) == [kind |-> "array", ids |-> ids]

\* lines 354-358: exit(1) unless main returned a true value; an exception that
\* leaves main ends the interpreter with status 1 too.  result is "True",
\* "False" or "raised"; a process still running has status -1
ExitStatus(result) == IF result = "True" THEN 0 ELSE 1

\* -------------------------------------------------------------- actions
RunReset ==
    /\ reddit' = None
    /\ processed_ids' = {}
    /\ posts_data' = <<>>
    /\ n' = 0
    /\ idx' = 0
    /\ exitStatus' = -1
    /\ verifyRaised' = FALSE
    /\ loadRaised' = FALSE
    /\ loadFailed' = FALSE
    /\ loadedIds' = {}
    /\ fetchCalled' = FALSE
    /\ ttsCalled' = FALSE
    /\ raisedAt' = 0
    /\ raisedIn' = "none"
    /\ collected' = <<>>
    /\ last' = NoLast
    /\ ttsFailed' = {}
    /\ reaccepted' = {}
    /\ saveCalled' = FALSE
    /\ saveFailed' = FALSE
    /\ htmlCalled' = FALSE
    /\ htmlFailed' = FALSE

\* the process and the bookkeeping at the start of the first run
FirstRun ==
    /\ htmlFile = NoPage
    /\ pc = "start"
    /\ reddit = None
    /\ processed_ids = {}
    /\ posts_data = <<>>
    /\ n = 0
    /\ idx = 0
    /\ exitStatus = -1
    /\ runs = 1
    /\ verifyRaised = FALSE
    /\ loadRaised = FALSE
    /\ loadFailed = FALSE
    /\ loadedIds = {}
    /\ fetchCalled = FALSE
    /\ ttsCalled = FALSE
    /\ raisedAt = 0
    /\ raisedIn = "none"
    /\ collected = <<>>
    /\ last = NoLast
    /\ ttsFailed = {}
    /\ reaccepted = {}
    /\ saveCalled = FALSE
    /\ saveFailed = FALSE
    /\ htmlCalled = FALSE
    /\ htmlFailed = FALSE
    /\ acceptedRuns = [i \in Ids |-> {}]
    /\ allOK = TRUE

Init ==
    /\ CLIENT_ID \in EnvValues
    /\ CLIENT_SECRET \in EnvValues
    /\ envUserAgent \in EnvValues
    /\ historyFile \in HistoryFiles
    /\ \/ audioDir = FALSE /\ audio = NoAudio
       \/ audioDir = TRUE /\ audio = [NoAudio EXCEPT ![NameOf("def456")] = "audio"]
    /\ FirstRun
    /\ sanIn = <<>>
    /\ sanOut = <<>>
    /\ sanDone = FALSE

\* main, lines 331-334
Connect ==
    /\ pc = "start"
    /\ \E raises \in BOOLEAN :
        LET r == connect_to_reddit(raises) IN
        /\ reddit' = r
        /\ verifyRaised' = (raises /\ Truthy(CLIENT_ID) /\ Truthy(CLIENT_SECRET)
                                   /\ Truthy(USER_AGENT))
        /\ IF r = None
           THEN pc' = "exit" /\ exitStatus' = ExitStatus("False")
           ELSE pc' = "load" /\ exitStatus' = exitStatus
    /\ UNCHANGED <<env, disk, san, processed_ids, posts_data, n, idx>>
    /\ UNCHANGED <<runs, loadRaised, loadFailed, loadedIds, fetchCalled, ttsCalled,
                   raisedAt, raisedIn, collected, last, ttsFailed, reaccepted,
                   saveCalled, saveFailed, htmlCalled, htmlFailed, acceptedRuns, allOK>>

\* main, lines 336-338
Load ==
    /\ pc = "load"
    /\ LET r == load_processed_posts IN
        /\ loadRaised' = r.raised
        /\ loadFailed' = r.failed
        /\ loadedIds' = r.ids
        /\ processed_ids' = r.ids
        /\ allOK' = (allOK /\ ~r.failed)
        /\ IF r.raised
           THEN pc' = "exit" /\ exitStatus' = ExitStatus("raised")
           ELSE pc' = "fetch" /\ exitStatus' = exitStatus
    /\ UNCHANGED <<env, disk, san, reddit, posts_data, n, idx>>
    /\ UNCHANGED <<runs, verifyRaised, fetchCalled, ttsCalled, raisedAt, raisedIn,
                   collected, last, ttsFailed, reaccepted, saveCalled, saveFailed,
                   htmlCalled, htmlFailed, acceptedRuns>>

\* fetch_and_process_posts, lines 122-128: the listing is requested; it will
\* yield len items unless it raises first
FetchBegin ==
    /\ pc = "fetch"
    /\ \E len \in 0..Min(MaxPosts, POST_LIMIT) : n' = len
    /\ posts_data' = <<>>
    /\ idx' = 0
    /\ fetchCalled' = TRUE
    /\ pc' = "loop"
    /\ UNCHANGED <<env, disk, san, reddit, processed_ids, exitStatus>>
    /\ UNCHANGED <<runs, verifyRaised, loadRaised, loadFailed, loadedIds, ttsCalled,
                   raisedAt, raisedIn, collected, last, ttsFailed, reaccepted,
                   saveCalled, saveFailed, htmlCalled, htmlFailed, acceptedRuns, allOK>>

\* an exception reaches the except clauses of fetch_and_process_posts
Raise(where) ==
    /\ raisedAt' = idx + 1
    /\ raisedIn' = where
    /\ collected' = posts_data
    /\ pc' = AfterLoopException

\* the listing raises while the next item is fetched (line 128)
IterationError ==
    /\ pc = "loop"
    /\ idx < n
    /\ Raise("iteration")
    /\ UNCHANGED <<env, disk, san, reddit, processed_ids, posts_data, n, idx, exitStatus>>
    /\ UNCHANGED <<runs, verifyRaised, loadRaised, loadFailed, loadedIds, fetchCalled,
                   ttsCalled, last, ttsFailed, reaccepted, saveCalled, saveFailed,
                   htmlCalled, htmlFailed, acceptedRuns, allOK>>

\* one iteration of the loop of fetch_and_process_posts (lines 128-169) on the
\* item s the listing yields, with what the environment does in it:
\*   mkdirFails  Path(AUDIO_DIR).mkdir raises (line 78, outside the retry loop)
\*   failures    synthesis attempts that fail before one would succeed
\*   partial     a failed tts.save leaves a file behind at the audio path
ProcessSubmission ==
    /\ pc = "loop"
    /\ idx < n
    /\ \E s \in Submissions :
        LET clean_title == Strip(s.title, Whitespace)
            audio_filename == AudioFilename(s.id, clean_title)
            before == IF audioDir THEN audio[audio_filename] ELSE "absent"
            seen == [id |-> s.id, inSet |-> s.id \in processed_ids,
                     eligible |-> ContentOK(s), attempts |-> 0, outcome |-> "skipped",
                     before |-> before]
            Accept(audio_file) ==
                /\ posts_data' = Append(posts_data, PostRecord(s, clean_title, audio_file))
                /\ processed_ids' = ProcessedAfter(processed_ids, s, TRUE)
                /\ acceptedRuns' = [acceptedRuns EXCEPT ![s.id] = @ \cup {runs}]
                /\ reaccepted' = reaccepted \cup ({s.id} \cap ttsFailed)
        IN
        IF Skipped(s, processed_ids) THEN
            \* continue (line 136)
            /\ last' = seen
            /\ idx' = idx + 1
            /\ UNCHANGED <<disk, pc, processed_ids, posts_data, ttsCalled, raisedAt,
                           raisedIn, collected, ttsFailed, reaccepted, acceptedRuns>>
        ELSE IF AudioExists(audio_filename) THEN
            \* the existing file is used (lines 150-152)
            /\ last' = [seen EXCEPT !.outcome = "reused"]
            /\ idx' = idx + 1
            /\ Accept(audio_filename)
            /\ UNCHANGED <<disk, pc, ttsCalled, raisedAt, raisedIn, collected, ttsFailed>>
        ELSE \E mkdirFails \in BOOLEAN :
            IF mkdirFails THEN
                \* generate_tts raises before its retry loop; the loop is left
                /\ last' = [seen EXCEPT !.outcome = "raised"]
                /\ Raise("item")
                /\ UNCHANGED <<disk, idx, processed_ids, posts_data, ttsCalled, ttsFailed,
                               reaccepted, acceptedRuns>>
            ELSE \E failures \in 0..TTS_ATTEMPTS :
                LET tts == generate_tts(failures) IN
                /\ audioDir' = TRUE
                /\ ttsCalled' = TRUE
                /\ idx' = idx + 1
                /\ UNCHANGED <<historyFile, htmlFile, pc, raisedAt, raisedIn, collected>>
                /\ IF tts.ok
                   THEN /\ audio' = [audio EXCEPT ![audio_filename] = "audio"]
                        /\ last' = [seen EXCEPT !.attempts = tts.attempts,
                                                !.outcome = "generated"]
                        /\ Accept(audio_filename)
                        /\ UNCHANGED ttsFailed
                   ELSE \* generate_tts returned None: continue (line 158)
                        /\ \E partial \in BOOLEAN :
                            audio' = [audio EXCEPT ![audio_filename] =
                                          IF partial THEN "partial" ELSE before]
                        /\ last' = [seen EXCEPT !.attempts = tts.attempts,
                                                !.outcome = "ttsfailed"]
                        /\ ttsFailed' = ttsFailed \cup {s.id}
                        /\ processed_ids' = ProcessedAfter(processed_ids, s, FALSE)
                        /\ UNCHANGED <<posts_data, reaccepted, acceptedRuns>>
    /\ UNCHANGED <<env, san, reddit, n, exitStatus>>
    /\ UNCHANGED <<runs, verifyRaised, loadRaised, loadFailed, loadedIds, fetchCalled,
                   saveCalled, saveFailed, htmlCalled, htmlFailed, allOK>>

\* the listing is exhausted: return posts_data, processed_ids (line 176)
LoopEnd ==
    /\ pc = "loop"
    /\ idx = n
    /\ pc' = "save"
    /\ UNCHANGED <<env, disk, san, reddit, processed_ids, posts_data, n, idx, exitStatus, hist>>

\* main, line 345: save_processed_posts; open or the write may raise IOError
Save ==
    /\ pc = "save"
    /\ \E io \in {"ok", "open_fails", "write_fails"} :
        /\ historyFile' = CASE io = "ok" -> SavedContent(processed_ids)
                            [] io = "open_fails" -> historyFile
                            [] OTHER -> [kind |-> "notjson", ids |-> {}]
        /\ saveFailed' = (io # "ok")
        /\ allOK' = (allOK /\ io = "ok")
    /\ saveCalled' = TRUE
    /\ pc' = "html"
    /\ UNCHANGED <<env, san, audioDir, audio, htmlFile, reddit, processed_ids, posts_data,
                   n, idx, exitStatus>>
    /\ UNCHANGED <<runs, verifyRaised, loadRaised, loadFailed, loadedIds, fetchCalled,
                   ttsCalled, raisedAt, raisedIn, collected, last, ttsFailed, reaccepted,
                   htmlCalled, htmlFailed, acceptedRuns>>

\* main, lines 348-350, and the exit of lines 354-358
GenerateHtml ==
    /\ pc = "html"
    /\ LET sorted == IF posts_data = <<>> THEN posts_data ELSE SortByDateDesc(posts_data)
           page == [kind |-> "page", notice |-> (posts_data = <<>>), blocks |-> Blocks(sorted)]
       IN
        /\ posts_data' = sorted
        /\ \E io \in {"ok", "open_fails", "write_fails"} :
            /\ htmlFile' = CASE io = "ok" -> page
                             [] io = "open_fails" -> htmlFile
                             [] OTHER -> [kind |-> "partial", notice |-> FALSE, blocks |-> <<>>]
            /\ htmlFailed' = (io # "ok")
            /\ exitStatus' = ExitStatus(IF io = "ok" THEN "True" ELSE "False")
    /\ htmlCalled' = TRUE
    /\ pc' = "exit"
    /\ UNCHANGED <<env, san, historyFile, audioDir, audio, reddit, processed_ids, n, idx>>
    /\ UNCHANGED <<runs, verifyRaised, loadRaised, loadFailed, loadedIds, fetchCalled,
                   ttsCalled, raisedAt, raisedIn, collected, last, ttsFailed, reaccepted,
                   saveCalled, saveFailed, acceptedRuns, allOK>>

\* the scheduler starts the next run once the previous one has ended
NewRun ==
    /\ pc = "exit"
    /\ runs < MaxRuns
    /\ runs' = runs + 1
    /\ pc' = "start"
    /\ RunReset
    /\ UNCHANGED <<env, disk, san, acceptedRuns, allOK>>

Next ==
    \/ Connect
    \/ Load
    \/ FetchBegin
    \/ ProcessSubmission
    \/ IterationError
    \/ LoopEnd
    \/ Save
    \/ GenerateHtml
    \/ NewRun

Spec == Init /\ [][Next]_vars

\* ---------------------------------------------- sanitize_filename alone
TailChars == {"a", "_", " ", "."}

Tails == UNION {[1..m -> TailChars] : m \in 0..MaxTail}

Pad(k) == [i \in 1..k |-> "a"]

\* names that end around the length limit, and short ones
SanInputs ==
    {Pad(k) \o t : k \in {0} \cup ((FILENAME_LIMIT - 2)..(FILENAME_LIMIT + 1)), t \in Tails}

SanInit ==
    /\ sanIn \in SanInputs
    /\ sanOut = <<>>
    /\ sanDone = FALSE
    /\ CLIENT_ID = None
    /\ CLIENT_SECRET = None
    /\ envUserAgent = None
    /\ historyFile = [kind |-> "missing", ids |-> {}]
    /\ audioDir = FALSE
    /\ audio = NoAudio
    /\ FirstRun

Sanitize ==
    /\ ~sanDone
    /\ sanOut' = sanitize_filename(sanIn)
    /\ sanDone' = TRUE
    /\ UNCHANGED <<env, disk, proc, hist, sanIn>>

SanNext == Sanitize

SanSpec == SanInit /\ [][SanNext]_vars

\* ================================================================ claims
InRun == pc \in {"load", "fetch", "loop", "save", "html", "exit"}
AfterFetch == pc \in {"save", "html", "exit"}
Saved == saveCalled /\ ~saveFailed
Rendered == htmlCalled /\ ~htmlFailed
BlockIds == {htmlFile.blocks[i] : i \in 1..Len(htmlFile.blocks)}
PassedFilter == last.outcome # "none" /\ ~last.inSet /\ last.eligible

\* the identifier i is in nothing this run keeps, saves or renders
AbsentFromRun(i) ==
    /\ i \notin processed_ids
    /\ i \notin PostIds(posts_data)
    /\ Saved => (historyFile.kind = "array" /\ i \notin historyFile.ids)
    /\ Rendered => (htmlFile.kind = "page" /\ i \notin BlockIds)

\* C1 as stated: an item that passed the filter, had no audio file and whose
\* synthesis failed on all 3 attempts has its identifier in neither the dedup
\* set the run saves nor the page the run renders.
C1_FailedItemAbsent == \A i \in ttsFailed : AbsentFromRun(i)

\* C1: when synthesis fails for an item that passed the filter and had no audio
\* file, exactly 3 attempts were made and the iteration adds neither a record
\* nor the identifier; the identifier is absent from the saved dedup set and
\* from the rendered page of the run unless the listing yields the same
\* identifier again later in the run and that later item is accepted.
C1_FailedItemAbsentUnlessReaccepted ==
    /\ last.outcome = "ttsfailed" =>
          /\ last.attempts = TTS_ATTEMPTS
          /\ last.before = "absent"
          /\ PassedFilter
          /\ last.id \in ttsFailed
    /\ \A i \in ttsFailed \ reaccepted : AbsentFromRun(i)

C1_Witness ==
    /\ pc = "exit"
    /\ Saved
    /\ Rendered
    /\ ttsFailed \ reaccepted # {}
    /\ Len(posts_data) = 1

\* C2: an item whose identifier is in the dedup set when it is examined is
\* skipped whatever its other fields are, no identifier loaded from the dedup
\* store is in the returned list, and no identifier is in the list twice.
C2_DedupExcluded ==
    /\ last.inSet => last.outcome = "skipped"
    /\ PostIds(posts_data) \cap loadedIds = {}
    /\ \A i, j \in 1..Len(posts_data) : posts_data[i].id = posts_data[j].id => i = j
    /\ PostIds(posts_data) \subseteq processed_ids

\* the listing yields twice an identifier whose items are otherwise acceptable
C2_Witness ==
    /\ pc = "loop"
    /\ last.inSet
    /\ last.eligible
    /\ last.before # "absent"
    /\ last.id \notin loadedIds
    /\ last.id \in PostIds(posts_data)

\* C3: load_processed_posts never raises, and returns the empty set whenever
\* the dedup-store file is missing, unreadable or anything but a JSON array.
C3_LoadNeverRaises ==
    /\ ~loadRaised
    /\ (pc \in {"fetch", "loop", "save"} /\ historyFile.kind # "array") => loadedIds = {}

\* C4: the result of sanitize_filename holds only characters of
\* [A-Za-z0-9_.-], no two consecutive underscores, no underscore at either
\* end, and at most FILENAME_LIMIT characters.
C4_SanitizedShape ==
    sanDone =>
        /\ \A i \in 1..Len(sanOut) : sanOut[i] \in AllowedChars
        /\ \A i \in 1..(Len(sanOut) - 1) : ~(sanOut[i] = "_" /\ sanOut[i + 1] = "_")
        /\ sanOut # <<>> => (sanOut[1] # "_" /\ sanOut[Len(sanOut)] # "_")
        /\ Len(sanOut) <= FILENAME_LIMIT

\* C5: a run ends with status 1 exactly when the connection step or the HTML
\* write failed; every other run writes the page and ends with status 0.
C5_FailureOnlyFromConnectOrHtml ==
    pc = "exit" =>
        /\ exitStatus = 1 <=> (reddit = None \/ htmlFailed)
        /\ exitStatus = 0 <=> (reddit # None /\ Rendered)

\* C6 as stated: an absent application identifier, application secret or
\* client signature string, or a verification call that raises, leaves the
\* run without a session.
C6_AnyAbsentValueFails ==
    (InRun /\ (CLIENT_ID = None \/ CLIENT_SECRET = None \/ envUserAgent = None
               \/ verifyRaised))
        => (reddit = None /\ pc = "exit")

ConnectMustFail == ~Truthy(CLIENT_ID) \/ ~Truthy(CLIENT_SECRET)

\* C6: when the application identifier or the application secret is absent, or
\* the verification call raises, the connection step yields no session and the
\* run ends at once with status 1: no file or directory changes and no load,
\* fetch, synthesis, save or rendering happens.  An absent client signature
\* string is replaced by the default and does not fail the connection step.
C6_ConnectFailureAborts ==
    /\ [](InRun /\ (ConnectMustFail \/ verifyRaised) =>
            /\ reddit = None
            /\ pc = "exit"
            /\ exitStatus = 1
            /\ ~fetchCalled /\ ~ttsCalled /\ ~saveCalled /\ ~htmlCalled
            /\ processed_ids = {} /\ posts_data = <<>>)
    /\ [][(pc = "start" /\ (ConnectMustFail \/ verifyRaised')) =>
            (pc' = "exit" /\ UNCHANGED disk)]_vars
    /\ [](InRun /\ ~ConnectMustFail /\ ~verifyRaised => reddit # None)

C6_Witness ==
    /\ pc = "exit"
    /\ reddit = None
    /\ verifyRaised
    /\ runs = 2
    /\ historyFile.kind = "array"
    /\ historyFile.ids # {}
    /\ htmlFile.kind = "page"

\* C7: an item that passes the filter and whose audio file already exists is
\* accepted without any synthesis attempt: the file keeps its content, the
\* record carries the file's name and the identifier joins the dedup set.
C7_ExistingAudioReused ==
    (PassedFilter /\ last.before # "absent") =>
        /\ last.outcome = "reused"
        /\ last.attempts = 0
        /\ audio[NameOf(last.id)] = last.before
        /\ last.id \in processed_ids
        /\ \E k \in 1..Len(posts_data) :
              posts_data[k].id = last.id /\ posts_data[k].audio_file = NameOf(last.id)

\* a file left by an earlier run whose identifier the dedup store does not hold
C7_Witness ==
    /\ runs = 2
    /\ pc = "loop"
    /\ last.outcome = "reused"
    /\ last.before = "audio"
    /\ ~ttsCalled

SameRecords(a, b) ==
    /\ Len(a) = Len(b)
    /\ {a[i] : i \in 1..Len(a)} = {b[i] : i \in 1..Len(b)}

\* C8: an error raised while the listing is iterated ends the iteration and
\* not the run: what was accepted before it stays in the result list and in
\* the dedup set, and the save and the rendering are performed with exactly
\* those items.
C8_ErrorKeepsCollected ==
    raisedAt > 0 =>
        /\ AfterFetch
        /\ SameRecords(posts_data, collected)
        /\ PostIds(collected) \subseteq processed_ids
        /\ pc = "exit" =>
              /\ saveCalled
              /\ htmlCalled
              /\ Saved => historyFile = [kind |-> "array",
                                         ids |-> loadedIds \cup PostIds(collected)]
              /\ Rendered => /\ htmlFile.kind = "page"
                             /\ Len(htmlFile.blocks) = Len(collected)
                             /\ BlockIds = PostIds(collected)

C8_Witness ==
    /\ pc = "exit"
    /\ raisedAt = 2
    /\ Len(collected) = 1
    /\ Saved
    /\ Rendered

\* C9 as stated: an exception raised while one item is processed excludes that
\* item only; the loop goes on to every later item of the listing.
C9_LoopContinuesAfterItemError ==
    (raisedIn = "item" /\ pc # "loop") => idx + 1 = n

\* C9: an exception raised while one item is processed ends the loop: that
\* item and every later item of the listing are left out of this run (no
\* record, identifier not added), and the items accepted before it stay.
C9_ItemErrorEndsLoop ==
    raisedIn = "item" =>
        /\ AfterFetch
        /\ idx = raisedAt - 1
        /\ idx < n
        /\ last.outcome = "raised"
        /\ last.id \notin processed_ids
        /\ last.id \notin PostIds(posts_data)
        /\ SameRecords(posts_data, collected)

\* the exception hits the second of three items, after one was accepted
C9_Witness ==
    /\ raisedIn = "item"
    /\ pc = "exit"
    /\ raisedAt < n
    /\ Saved
    /\ Rendered

\* C10: while every load and save of the dedup store succeeds, no identifier
\* is accepted in more than one run; the set a run saves is the set it loaded
\* plus exactly the identifiers of the posts it accepted.
C10_NoReacceptance ==
    /\ allOK => \A i \in Ids : Cardinality(acceptedRuns[i]) <= 1
    /\ (pc \in {"html", "exit"} /\ Saved /\ ~loadFailed) =>
          historyFile = [kind |-> "array", ids |-> loadedIds \cup PostIds(posts_data)]

C10_Witness ==
    /\ runs = 2
    /\ pc = "exit"
    /\ allOK
    /\ Saved
    /\ loadedIds # {}
    /\ \E i \in Ids : acceptedRuns[i] = {1}
    /\ \E i \in Ids : acceptedRuns[i] = {2}

\* C10, second sentence: after a failed save or a degraded load an identifier
\* can be accepted again; TLC reaches a state that violates this predicate.
C10_NeverAcceptedTwice == \A i \in Ids : Cardinality(acceptedRuns[i]) <= 1
====
